---- MODULE Spec2Model ----
(***************************************************************************)
(* The corpus-to-batch pipeline of joeynmt (speech variant):               *)
(*   - build_vocab                 (src/joeynmt/helpers.py)                *)
(*   - load_data / the text loader (src/joeynmt/data.py)                   *)
(*   - load_audio_data / AudioDataset (src/joeynmt/helpers.py)             *)
(*   - make_data_iter              (src/joeynmt/helpers.py)                *)
(* Sequences are 1-based here and 0-based in the code: the token with the  *)
(* code's index i is itos[i + 1].                                          *)
(***************************************************************************)
EXTENDS Integers, Sequences, FiniteSets, TLC

VARIABLES
    pc,             \* position of the program: which call has been made
    \* ---- build_vocab(field, max_size, min_freq, dataset, vocab_file)
    dataset,        \* dataset.examples: sequence of [src, trg] token sequences
    field,          \* "src" or "trg"
    max_size,
    min_freq,
    vocab_file,     \* NoFile, or the lines of the vocabulary file
    vocab,          \* the Vocabulary object build_vocab constructed
    outcome,        \* "none", "returned" or the exception that was raised
    \* ---- load_data(cfg)
    src_lines,      \* the lines of <path>.<src> (without the line ends)
    trg_lines,      \* the lines of <path>.<trg>
    level,          \* cfg["data"]["level"]: "char", or "word" for bpe/word
    lowercase,      \* cfg["data"]["lowercase"]
    max_sent_length,
    test_cfg,       \* "none": no test path; "paired": test_path.<trg> is a
                    \* file; "src_only": it is not
    train_data,
    dev_data,
    test_data,
    src_vocab,
    trg_vocab,
    \* ---- AudioDataset(path, text_ext, audio_ext, field, num, char_level, train)
    text_lines,     \* the lines of the transcript file <path><text_ext>
    audio_lines,    \* the lines of <path>.txt: one audio reference per line
    train,          \* the train flag of the constructor
    max_audio_length,
    audio_data,     \* the AudioDataset that was constructed
    audio_outcome,  \* "none", "returned" or the exception that was raised
    processed,      \* number of line pairs whose audio was loaded
    length_statistics,  \* the lines of the file <path>_length_statistics
    \* ---- make_data_iter(dataset, batch_size, train, shuffle)
    iter_dataset,   \* dataset.examples: sequence of [id, src]
    batch_size,
    iter_train,     \* the train flag of make_data_iter
    shuffle,
    data_iter,      \* the iterator make_data_iter returned
    batches,        \* self.batches: the batches the running pass has left
    yielded,        \* the batches the running pass has yielded so far
    epoch           \* number of passes started

vocabVars == <<dataset, field, max_size, min_freq, vocab_file, vocab, outcome>>
textVars == <<src_lines, trg_lines, level, lowercase, max_sent_length,
              test_cfg, train_data, dev_data, test_data, src_vocab, trg_vocab>>
audioVars == <<text_lines, audio_lines, train, max_audio_length, audio_data,
               audio_outcome, processed, length_statistics>>
iterVars == <<iter_dataset, batch_size, iter_train, shuffle, data_iter,
              batches, yielded, epoch>>
vars == <<pc, vocabVars, textVars, audioVars, iterVars>>

Range(s) == {s[i] : i \in 1..Len(s)}

Min(a, b) == IF a < b THEN a ELSE b

Max(a, b) == IF a < b THEN b ELSE a

(***************************************************************************)
(* joeynmt.constants (imported, helpers.py:26-27)                          *)
(***************************************************************************)
\* A str is the sequence of its characters.
UNK_TOKEN == <<"<", "u", "n", "k", ">">>

PAD_TOKEN == <<"<", "p", "a", "d", ">">>

BOS_TOKEN == <<"<", "s", ">">>

EOS_TOKEN == <<"<", "/", "s", ">">>

DEFAULT_UNK_ID == 0

\* specials = [UNK_TOKEN, PAD_TOKEN, BOS_TOKEN, EOS_TOKEN]
specials == <<UNK_TOKEN, PAD_TOKEN, BOS_TOKEN, EOS_TOKEN>>

(***************************************************************************)
(* Python's order on str: lexicographic on the code points. CharOrder      *)
(* lists the characters of the model by code point.                        *)
(***************************************************************************)
CharOrder ==
    <<" ", "/", "<", ">", "A", "a", "b", "c", "d", "k", "n", "p", "s", "u",
      "x", "y", "z">>

Ord(c) == CHOOSE i \in 1..Len(CharOrder) : CharOrder[i] = c

\* a < b on str
RECURSIVE StrLess(_, _)
StrLess(a, b) ==
    IF b = <<>> THEN FALSE
    ELSE IF a = <<>> THEN TRUE
    ELSE IF Head(a) # Head(b) THEN Ord(Head(a)) < Ord(Head(b))
    ELSE StrLess(Tail(a), Tail(b))

(***************************************************************************)
(* Bounds of the vocabulary model                                          *)
(***************************************************************************)
\* tokens that occur in the examples of the dataset
Tokens == {<<"a">>, <<"b">>, <<"c">>}

\* total number of tokens (both fields) of the dataset handed to build_vocab
MaxCorpusTokens == 5

\* max_size ranges over -1..MaxVocSize
MaxVocSize == 3

\* min_freq ranges over -2..MaxMinFreq
MaxMinFreq == 2

\* number of lines of a vocabulary file
MaxFileLines == 2

\* vocab_file: None, or a file with these lines
NoFile == [is_none |-> TRUE, lines |-> <<>>]

VocabFile(lines) == [is_none |-> FALSE, lines |-> lines]

(***************************************************************************)
(* joeynmt.vocabulary.Vocabulary: itos is the list of tokens, stoi the     *)
(* defaultdict(DEFAULT_UNK_ID) from token to index.                        *)
(***************************************************************************)
EmptyVocabulary == [itos |-> <<>>, stoi |-> <<>>]

\* Vocabulary.add_tokens: append every token that is not there yet
RECURSIVE add_tokens(_, _)
add_tokens(v, tokens) ==
    IF tokens = <<>> THEN v
    ELSE LET t == Head(tokens)
             new_index == Len(v.itos)
             v1 == IF t \in Range(v.itos) THEN v
                   ELSE [itos |-> Append(v.itos, t),
                         stoi |-> (t :> new_index) @@ v.stoi]
         IN  add_tokens(v1, Tail(tokens))

\* Vocabulary(tokens=...): the reserved tokens at 0..3, then the remaining
\* unique tokens in their given order
VocabularyFromList(tokens) == add_tokens(EmptyVocabulary, specials \o tokens)

\* Vocabulary(file=...): the mapping directly in the order of the lines
VocabularyFromFile(lines) == add_tokens(EmptyVocabulary, lines)

\* vocab.stoi[t]: a defaultdict, the unknown index for an absent token
stoi_get(v, t) == IF t \in DOMAIN v.stoi THEN v.stoi[t] ELSE DEFAULT_UNK_ID

\* vocab.itos[i]
itos_get(v, i) == v.itos[i + 1]

\* Vocabulary.is_unk
is_unk(v, t) == stoi_get(v, t) = DEFAULT_UNK_ID

(***************************************************************************)
(* build_vocab                                                             *)
(***************************************************************************)
\* tokens = []; for i in dataset.examples: tokens.extend(i.src | i.trg)
RECURSIVE FieldTokens(_, _)
FieldTokens(examples, f) ==
    IF examples = <<>> THEN <<>>
    ELSE (IF f = "src" THEN Head(examples).src
          ELSE IF f = "trg" THEN Head(examples).trg
          ELSE <<>>) \o FieldTokens(Tail(examples), f)

Count(tokens, t) == Cardinality({i \in 1..Len(tokens) : tokens[i] = t})

\* the keys of Counter(tokens), in insertion (first occurrence) order
RECURSIVE Distinct(_)
Distinct(tokens) ==
    IF tokens = <<>> THEN <<>>
    ELSE LET d == Distinct(SubSeq(tokens, 1, Len(tokens) - 1))
             t == tokens[Len(tokens)]
         IN  IF t \in Range(d) THEN d ELSE Append(d, t)

\* Counter(tokens).items(): (token, count) pairs
Counter(tokens) ==
    LET d == Distinct(tokens)
    IN  [i \in 1..Len(d) |-> [tok |-> d[i], cnt |-> Count(tokens, d[i])]]

filter_min_gt(counter, mf) ==
    LET Keep(e) == e.cnt > mf IN SelectSeq(counter, Keep)

\* filter_min: {t: c for t, c in counter.items() if c >= min_freq}
filter_min(counter, mf) ==
    LET Keep(e) == e.cnt >= mf IN SelectSeq(counter, Keep)

\* insert x behind every element whose token is <= x's token
RECURSIVE InsertByToken(_, _)
InsertByToken(sorted, x) ==
    IF sorted = <<>> THEN <<x>>
    ELSE IF ~StrLess(x.tok, Head(sorted).tok)
         THEN <<Head(sorted)>> \o InsertByToken(Tail(sorted), x)
         ELSE <<x>> \o sorted

\* sorted(counter.items(), key=lambda tup: tup[0])
RECURSIVE SortByToken(_)
SortByToken(items) ==
    IF items = <<>> THEN <<>>
    ELSE InsertByToken(SortByToken(SubSeq(items, 1, Len(items) - 1)),
                       items[Len(items)])

\* insert x behind every element whose count is >= x's count
RECURSIVE InsertByCountDesc(_, _)
InsertByCountDesc(sorted, x) ==
    IF sorted = <<>> THEN <<x>>
    ELSE IF Head(sorted).cnt >= x.cnt
         THEN <<Head(sorted)>> \o InsertByCountDesc(Tail(sorted), x)
         ELSE <<x>> \o sorted

SortByCountDesc_unsorted(items) == items

\* tokens_and_frequencies.sort(key=lambda tup: tup[1], reverse=True): stable
RECURSIVE SortByCountDesc(_)
SortByCountDesc(items) ==
    IF items = <<>> THEN <<>>
    ELSE InsertByCountDesc(SortByCountDesc(SubSeq(items, 1, Len(items) - 1)),
                           items[Len(items)])

Cut_all(items, limit) == items

\* the slice items[:limit] (a negative limit counts from the end)
Cut(items, limit) ==
    IF limit >= 0 THEN SubSeq(items, 1, Min(limit, Len(items)))
    ELSE SubSeq(items, 1, Max(Len(items) + limit, 0))

\* sort_and_cut(counter, limit)
sort_and_cut(counter, limit) ==
    LET tokens_and_frequencies == SortByCountDesc(SortByToken(counter))
        cut == Cut(tokens_and_frequencies, limit)
    IN  [i \in 1..Len(cut) |-> cut[i].tok]

\* the token list that is counted: the tokens of the selected field
CountedTokens(examples, f) == FieldTokens(examples, f)

FilteredCounter_unfiltered(examples, f, mf) ==
    Counter(CountedTokens(examples, f))

\* counter = Counter(tokens); if min_freq > -1: counter = filter_min(...)
FilteredCounter(examples, f, mf) ==
    LET counter == Counter(CountedTokens(examples, f))
    IN  IF mf > -1 THEN filter_min(counter, mf) ELSE counter

\* vocab_tokens = specials + sort_and_cut(counter, max_size)
VocabTokens(examples, f, ms, mf) ==
    specials \o sort_and_cut(FilteredCounter(examples, f, mf), ms)

SpecialsAreOOV_skip_pad(v) ==
    \E i \in 3..Len(specials) : is_unk(v, specials[i])

\* for s in specials[1:]: assert not vocab.is_unk(s)   -- TRUE when it fails
SpecialsAreOOV(v) ==
    \E i \in 2..Len(specials) : is_unk(v, specials[i])

\* build_vocab: the Vocabulary constructed and how the call ends
build_vocab(f, ms, mf, examples, file) ==
    IF ~file.is_none
    THEN LET v == add_tokens(VocabularyFromFile(file.lines), specials)
         IN  [vocab |-> v,
              outcome |-> IF SpecialsAreOOV(v) THEN "AssertionError"
                          ELSE "returned"]
    ELSE LET vocab_tokens == VocabTokens(examples, f, ms, mf)
         IN  IF vocab_tokens[DEFAULT_UNK_ID + 1] # UNK_TOKEN
                \/ ~(Len(vocab_tokens) <= ms + Len(specials))
             THEN [vocab |-> EmptyVocabulary, outcome |-> "AssertionError"]
             ELSE LET v == VocabularyFromList(vocab_tokens)
                  IN  [vocab |-> v,
                       outcome |-> IF SpecialsAreOOV(v) THEN "AssertionError"
                                   ELSE "returned"]

\* a dataset: None, or the examples of a TranslationDataset / MonoDataset
NoData == [kind |-> "None", examples |-> <<>>]

\* the variables of load_data before load_data is called
IdleText ==
    /\ src_lines = <<>>
    /\ trg_lines = <<>>
    /\ level = "word"
    /\ lowercase = FALSE
    /\ max_sent_length = 0
    /\ test_cfg = "none"
    /\ train_data = NoData
    /\ dev_data = NoData
    /\ test_data = NoData
    /\ src_vocab = EmptyVocabulary
    /\ trg_vocab = EmptyVocabulary

\* the variables of AudioDataset before it is constructed
IdleAudio ==
    /\ text_lines = <<>>
    /\ audio_lines = <<>>
    /\ train = FALSE
    /\ max_audio_length = 0
    /\ audio_data = NoData
    /\ audio_outcome = "none"
    /\ processed = 0
    /\ length_statistics = <<>>

\* no iterator has been made
NoIter ==
    [kind |-> "None", repeat |-> FALSE, sort |-> FALSE,
     sort_within_batch |-> FALSE, shuffle |-> FALSE, train |-> FALSE]

\* the variables of make_data_iter before it is called
IdleIter ==
    /\ iter_dataset = <<>>
    /\ batch_size = 1
    /\ iter_train = FALSE
    /\ shuffle = FALSE
    /\ data_iter = NoIter
    /\ batches = <<>>
    /\ yielded = <<>>
    /\ epoch = 0

IdleVocab ==
    /\ dataset = <<>>
    /\ field = "src"
    /\ max_size = 0
    /\ min_freq = 0
    /\ vocab_file = NoFile
    /\ vocab = EmptyVocabulary
    /\ outcome = "none"

(***************************************************************************)
(* The dataset handed to build_vocab: any sequence of examples with        *)
(* non-empty src and trg, grown token by token up to MaxCorpusTokens.      *)
(***************************************************************************)
RECURSIVE CorpusTokens(_)
CorpusTokens(examples) ==
    IF examples = <<>> THEN 0
    ELSE Len(Head(examples).src) + Len(Head(examples).trg)
         + CorpusTokens(Tail(examples))

\* build_vocab does not read `dataset` when vocab_file is given: the runs that
\* load a vocabulary file ("file") keep the dataset empty
InitVocab ==
    /\ pc \in {"corpus", "file"}
    /\ IdleVocab
    /\ IdleIter
    /\ IdleText
    /\ IdleAudio

\* one more example in the dataset
NewExample ==
    /\ pc = "corpus"
    /\ CorpusTokens(dataset) + 2 <= MaxCorpusTokens
    /\ \E s \in Tokens, t \in Tokens :
          dataset' = Append(dataset, [src |-> <<s>>, trg |-> <<t>>])
    /\ UNCHANGED <<pc, field, max_size, min_freq, vocab_file, vocab, outcome>>
    /\ UNCHANGED <<textVars, audioVars, iterVars>>

\* one more token in the last example's src or trg
ExtendExample ==
    /\ pc = "corpus"
    /\ dataset # <<>>
    /\ CorpusTokens(dataset) + 1 <= MaxCorpusTokens
    /\ \E f \in {"src", "trg"}, t \in Tokens :
          dataset' = [dataset EXCEPT ![Len(dataset)][f] = Append(@, t)]
    /\ UNCHANGED <<pc, field, max_size, min_freq, vocab_file, vocab, outcome>>
    /\ UNCHANGED <<textVars, audioVars, iterVars>>

\* build_vocab(field, max_size, min_freq, dataset)
BuildVocabFromData ==
    /\ pc = "corpus"
    /\ \E f \in {"src", "trg"}, ms \in -1..MaxVocSize, mf \in -2..MaxMinFreq :
          LET r == build_vocab(f, ms, mf, dataset, NoFile)
          IN  /\ field' = f
              /\ max_size' = ms
              /\ min_freq' = mf
              /\ vocab' = r.vocab
              /\ outcome' = r.outcome
    /\ pc' = "built"
    /\ UNCHANGED <<dataset, vocab_file>>
    /\ UNCHANGED <<textVars, audioVars, iterVars>>

\* the lines of a vocabulary file: distinct tokens, reserved ones or not
FileTokens == Range(specials) \cup {<<"a">>, <<"b">>}

VocabFiles ==
    {l \in UNION {[1..n -> FileTokens] : n \in 0..MaxFileLines} :
        \A i, j \in 1..Len(l) : i # j => l[i] # l[j]}

\* build_vocab(field, max_size, min_freq, dataset, vocab_file)
BuildVocabFromFile ==
    /\ pc = "file"
    /\ \E f \in {"src", "trg"}, lines \in VocabFiles :
          LET r == build_vocab(f, max_size, min_freq, dataset, VocabFile(lines))
          IN  /\ field' = f
              /\ vocab_file' = VocabFile(lines)
              /\ vocab' = r.vocab
              /\ outcome' = r.outcome
    /\ pc' = "built"
    /\ UNCHANGED <<dataset, max_size, min_freq>>
    /\ UNCHANGED <<textVars, audioVars, iterVars>>

NextVocab ==
    \/ NewExample
    \/ ExtendExample
    \/ BuildVocabFromData
    \/ BuildVocabFromFile

SpecVocab == InitVocab /\ [][NextVocab]_vars

(***************************************************************************)
(* str methods used by the loaders                                         *)
(***************************************************************************)
IsSpace(c) == c = " "

RECURSIVE lstrip(_)
lstrip(s) == IF s # <<>> /\ IsSpace(Head(s)) THEN lstrip(Tail(s)) ELSE s

RECURSIVE rstrip(_)
rstrip(s) ==
    IF s # <<>> /\ IsSpace(s[Len(s)]) THEN rstrip(SubSeq(s, 1, Len(s) - 1))
    ELSE s

\* s.strip()
strip(s) == rstrip(lstrip(s))

\* s.split(): the words between runs of whitespace
RECURSIVE split(_)
split(s) ==
    LET t == lstrip(s)
    IN  IF t = <<>> THEN <<>>
        ELSE LET spaces == {i \in 1..Len(t) : IsSpace(t[i])}
                 n == IF spaces = {} THEN Len(t) + 1
                      ELSE CHOOSE i \in spaces : \A j \in spaces : i <= j
             IN  <<SubSeq(t, 1, n - 1)>> \o split(SubSeq(t, n, Len(t)))

\* list(s): one token per character
list(s) == [i \in 1..Len(s) |-> <<s[i]>>]

\* str.lower
lower(s) == [i \in 1..Len(s) |-> IF s[i] = "A" THEN "a" ELSE s[i]]

\* tok_fun: list(s) for level "char", s.split() otherwise
tok_fun(lv, s) == IF lv = "char" THEN list(s) ELSE split(s)

\* data.Field(tokenize=tok_fun, lower=lowercase).preprocess
preprocess(lv, lc, s) ==
    LET x == tok_fun(lv, s)
    IN  IF lc THEN [i \in 1..Len(x) |-> lower(x[i])] ELSE x

(***************************************************************************)
(* The datasets of load_data                                               *)
(***************************************************************************)
\* TranslationDataset.__init__: one example per aligned pair of lines that
\* are both non-empty after strip()
RECURSIVE TranslationExamples(_, _, _, _)
TranslationExamples(srcf, trgf, lv, lc) ==
    IF srcf = <<>> \/ trgf = <<>> THEN <<>>
    ELSE LET src_line == strip(Head(srcf))
             trg_line == strip(Head(trgf))
             rest == TranslationExamples(Tail(srcf), Tail(trgf), lv, lc)
         IN  IF src_line # <<>> /\ trg_line # <<>>
             THEN <<[src |-> preprocess(lv, lc, src_line),
                     trg |-> preprocess(lv, lc, trg_line)]>> \o rest
             ELSE rest

filter_pred_src_only(x, msl) == Len(x.src) <= msl

\* filter_pred = lambda x: len(vars(x)['src']) <= max_sent_length
\*                         and len(vars(x)['trg']) <= max_sent_length
filter_pred(x, msl) == Len(x.src) <= msl /\ Len(x.trg) <= msl

\* train_data = TranslationDataset(path=train_path, ..., filter_pred=...)
TrainDataset(srcf, trgf, lv, lc, msl) ==
    LET Keep(x) == filter_pred(x, msl)
    IN  [kind |-> "Translation",
         examples |-> SelectSeq(TranslationExamples(srcf, trgf, lv, lc), Keep)]

EvalDataset_filtered(srcf, trgf, lv, lc, msl) ==
    TrainDataset(srcf, trgf, lv, lc, msl)

\* dev_data / test_data = TranslationDataset(path=..., exts, fields)
EvalDataset(srcf, trgf, lv, lc, msl) ==
    [kind |-> "Translation",
     examples |-> TranslationExamples(srcf, trgf, lv, lc)]

MonoExamples_keep_empty(srcf, lv, lc) ==
    [i \in 1..Len(srcf) |-> [src |-> preprocess(lv, lc, strip(srcf[i]))]]

\* MonoDataset.__init__: one example per line that is non-empty after strip()
RECURSIVE MonoExamples(_, _, _)
MonoExamples(srcf, lv, lc) ==
    IF srcf = <<>> THEN <<>>
    ELSE LET src_line == strip(Head(srcf))
             rest == MonoExamples(Tail(srcf), lv, lc)
         IN  IF src_line # <<>>
             THEN <<[src |-> preprocess(lv, lc, src_line)]>> \o rest
             ELSE rest

MonoDataset(srcf, lv, lc) ==
    [kind |-> "Mono", examples |-> MonoExamples(srcf, lv, lc)]

(***************************************************************************)
(* Bounds of the text model. The same corpus serves as the train, dev and  *)
(* test files: the three loads read their own files and share nothing.     *)
(***************************************************************************)
\* lines of a source file: " ", "a b", "c", " A "
SrcLinePool == {<<" ">>, <<"a", " ", "b">>, <<"c">>, <<" ", "A", " ">>}

\* lines of a target file: "", "x y", "z"
TrgLinePool == {<<>>, <<"x", " ", "y">>, <<"z">>}

\* number of lines of a corpus file
MaxLines == 2

\* max_sent_length ranges over 0..MaxSentLength
MaxSentLength == 3

\* data_cfg.get("voc_limit", sys.maxsize): no limit a vocabulary can reach
SysMaxSize == 1000

\* data_cfg.get("voc_min_freq", 1)
DefaultMinFreq == 1

FilesOver(pool) == UNION {[1..n -> pool] : n \in 0..MaxLines}

InitText ==
    /\ pc = "load_data"
    /\ IdleVocab
    /\ IdleIter
    /\ IdleAudio
    /\ src_lines \in FilesOver(SrcLinePool)
    /\ trg_lines \in FilesOver(TrgLinePool)
    /\ level \in {"char", "word"}
    /\ lowercase \in BOOLEAN
    /\ max_sent_length \in 0..MaxSentLength
    /\ test_cfg = "none"
    /\ train_data = NoData
    /\ dev_data = NoData
    /\ test_data = NoData
    /\ src_vocab = EmptyVocabulary
    /\ trg_vocab = EmptyVocabulary

\* load_data: train_data = TranslationDataset(..., filter_pred=...)
LoadTrain ==
    /\ pc = "load_data"
    /\ train_data' = TrainDataset(src_lines, trg_lines, level, lowercase,
                                  max_sent_length)
    /\ pc' = "train_loaded"
    /\ UNCHANGED <<src_lines, trg_lines, level, lowercase, max_sent_length,
                   test_cfg, dev_data, test_data, src_vocab, trg_vocab>>
    /\ UNCHANGED <<vocabVars, audioVars, iterVars>>

\* load_data: src_vocab = build_vocab("src", ...); trg_vocab = build_vocab("trg", ...)
BuildVocabs ==
    /\ pc = "train_loaded"
    /\ LET s == build_vocab("src", SysMaxSize, DefaultMinFreq,
                            train_data.examples, NoFile)
           t == build_vocab("trg", SysMaxSize, DefaultMinFreq,
                            train_data.examples, NoFile)
       IN  /\ src_vocab' = s.vocab
           /\ trg_vocab' = t.vocab
           /\ pc' = IF s.outcome # "returned" THEN s.outcome
                    ELSE IF t.outcome # "returned" THEN t.outcome
                    ELSE "vocab_built"
    /\ UNCHANGED <<src_lines, trg_lines, level, lowercase, max_sent_length,
                   test_cfg, train_data, dev_data, test_data>>
    /\ UNCHANGED <<vocabVars, audioVars, iterVars>>

\* load_data: dev_data = TranslationDataset(path=dev_path, ...)
LoadDev ==
    /\ pc = "vocab_built"
    /\ dev_data' = EvalDataset(src_lines, trg_lines, level, lowercase,
                               max_sent_length)
    /\ pc' = "dev_loaded"
    /\ UNCHANGED <<src_lines, trg_lines, level, lowercase, max_sent_length,
                   test_cfg, train_data, test_data, src_vocab, trg_vocab>>
    /\ UNCHANGED <<vocabVars, audioVars, iterVars>>

\* load_data: test_data = None | TranslationDataset | MonoDataset; return
LoadTest ==
    /\ pc = "dev_loaded"
    /\ \E tc \in {"none", "paired", "src_only"} :
          /\ test_cfg' = tc
          /\ test_data' =
                IF tc = "none" THEN NoData
                ELSE IF tc = "paired"
                     THEN EvalDataset(src_lines, trg_lines, level, lowercase,
                                      max_sent_length)
                     ELSE MonoDataset(src_lines, level, lowercase)
    /\ pc' = "returned"
    /\ UNCHANGED <<src_lines, trg_lines, level, lowercase, max_sent_length,
                   train_data, dev_data, src_vocab, trg_vocab>>
    /\ UNCHANGED <<vocabVars, audioVars, iterVars>>

NextText ==
    \/ LoadTrain
    \/ BuildVocabs
    \/ LoadDev
    \/ LoadTest

SpecText == InitText /\ [][NextText]_vars

(***************************************************************************)
(* AudioDataset                                                            *)
(* An audio reference is [empty, size, frames]: whether the line is empty  *)
(* after strip(), os.path.getsize of the referenced file, and the number   *)
(* of frames featuresT.shape[0] that librosa.feature.mfcc returns for it.  *)
(***************************************************************************)
\* os.path.getsize(audio_line) > 44
MinAudioBytes == 44

\* check < 10
RatioThreshold == 10

\* s * k for a str s (the empty str for k <= 0)
RECURSIVE Repeat(_, _)
Repeat(s, k) == IF k <= 0 THEN <<>> ELSE s \o Repeat(s, k - 1)

audio_dummy_per_frame(lv, frames) ==
    IF lv = "char" THEN Repeat(<<"a">>, frames)
    ELSE Repeat(<<"a", " ">>, frames)

\* audio_dummy = "a" * (featuresT.shape[0] - 1), or "a " * (...)
audio_dummy(lv, frames) ==
    IF lv = "char" THEN Repeat(<<"a">>, frames - 1)
    ELSE Repeat(<<"a", " ">>, frames - 1)

\* check = featuresT.shape[0] // (len(text_line) + 1)
check(frames, text_line) == frames \div (Len(text_line) + 1)

\* data.Example.fromlist([text_line, sound, y, featureS, audio_dummy], fields)
AudioExample(lv, lc, text_line, ref) ==
    [trg |-> preprocess(lv, lc, text_line),
     audio |-> ref,
     mfcc |-> ref.frames,
     src |-> preprocess(lv, lc, audio_dummy(lv, ref.frames))]

\* text_line != '' and audio_line != '' and getsize(audio_line) > 44
\* and check < 10
TrainKeeps(text_line, ref) ==
    /\ text_line # <<>>
    /\ ~ref.empty
    /\ ref.size > MinAudioBytes
    /\ check(ref.frames, text_line) < RatioThreshold

\* the locals of __init__ before the loop: maxi = 1, mini = 10, ...
InitLocals ==
    [examples |-> <<>>, maxi |-> 1, mini |-> 10, summa |-> 0, count |-> 0,
     processed |-> 0, error |-> "none"]

\* one pass of the loop body
LoopBody(acc, lv, lc, tr, raw_text, ref) ==
    IF acc.error # "none" THEN acc
    ELSE IF ref.empty
    THEN \* ta.load('') raises
         [acc EXCEPT !.error = "RuntimeError"]
    ELSE LET text_line == strip(raw_text)
             ck == check(ref.frames, text_line)
             counted ==
                 [acc EXCEPT
                     !.examples = Append(@, AudioExample(lv, lc, text_line, ref)),
                     !.maxi = IF ck > @ THEN ck ELSE @,
                     !.mini = IF ck < @ THEN ck ELSE @,
                     !.summa = @ + ck,
                     !.count = @ + 1,
                     !.processed = @ + 1]
         IN  IF tr
             THEN IF TrainKeeps(text_line, ref) THEN counted
                  ELSE [acc EXCEPT !.processed = @ + 1]
             ELSE counted

\* for text_line, audio_line in zip(text_file, audio_file): ...
RECURSIVE Loop(_, _, _, _, _, _)
Loop(acc, lv, lc, tr, text, audio) ==
    IF text = <<>> \/ audio = <<>> THEN acc
    ELSE Loop(LoopBody(acc, lv, lc, tr, Head(text), Head(audio)),
              lv, lc, tr, Tail(text), Tail(audio))

LineCountsDiffer_never(text, audio) == FALSE

\* len(open(text_path).read().splitlines())
\*     != len(open(audio_path).read().splitlines())
LineCountsDiffer(text, audio) == Len(text) # Len(audio)

audio_filter_pred_frames(x, mal, msl) == x.mfcc <= mal /\ Len(x.trg) <= msl

\* filter_pred = lambda x: len(vars(x)['src']) <= max_audio_length
\*                         and len(vars(x)['trg']) <= max_sent_length
audio_filter_pred(x, mal, msl) == Len(x.src) <= mal /\ Len(x.trg) <= msl

\* AudioDataset.__init__: how the call ends, the dataset, the line appended
\* to the statistics file (if any) and the number of pairs processed.
\* `filtered`: filter_pred is passed (load_audio_data passes it for train).
AudioDataset(text, audio, lv, lc, tr, filtered, mal, msl) ==
    IF LineCountsDiffer(text, audio)
    THEN [outcome |-> "IndexError", data |-> NoData, written |-> <<>>,
          processed |-> 0]
    ELSE LET acc == Loop(InitLocals, lv, lc, tr, text, audio)
             Keep(x) == audio_filter_pred(x, mal, msl)
         IN  IF acc.error # "none"
             THEN [outcome |-> acc.error, data |-> NoData, written |-> <<>>,
                   processed |-> acc.processed]
             ELSE IF acc.count = 0
             THEN \* summa/count
                  [outcome |-> "ZeroDivisionError", data |-> NoData,
                   written |-> <<>>, processed |-> acc.processed]
             ELSE [outcome |-> "returned",
                   data |-> [kind |-> "Audio",
                             examples |-> IF filtered
                                          THEN SelectSeq(acc.examples, Keep)
                                          ELSE acc.examples],
                   written |-> <<[mini |-> acc.mini, maxi |-> acc.maxi,
                                  summa |-> acc.summa, count |-> acc.count]>>,
                   processed |-> acc.processed]

(***************************************************************************)
(* Bounds of the audio model                                               *)
(***************************************************************************)
\* lines of a transcript file: " ", "a", "a b"
TranscriptPool == {<<" ">>, <<"a">>, <<"a", " ", "b">>}

\* audio references: an empty line; files of 44 and of more bytes; frame
\* counts 0, 1, 2 and around 2 * RatioThreshold
AudioPool ==
    {[empty |-> TRUE, size |-> 0, frames |-> 0],
     [empty |-> FALSE, size |-> MinAudioBytes, frames |-> 2]}
    \cup {[empty |-> FALSE, size |-> MinAudioBytes + 1, frames |-> n] :
             n \in {0, 1, 2, 2 * RatioThreshold - 1, 2 * RatioThreshold}}

\* number of lines of a transcript / audio-reference file
MaxAudioLines == 2

AudioFilesOver(pool) == UNION {[1..n -> pool] : n \in 0..MaxAudioLines}

InitAudio ==
    /\ pc = "audio"
    /\ IdleVocab
    /\ IdleIter
    /\ src_lines = <<>>
    /\ trg_lines = <<>>
    /\ level \in {"char", "word"}
    /\ lowercase = FALSE
    /\ max_sent_length \in {1, MaxSentLength}
    /\ test_cfg = "none"
    /\ train_data = NoData
    /\ dev_data = NoData
    /\ test_data = NoData
    /\ src_vocab = EmptyVocabulary
    /\ trg_vocab = EmptyVocabulary
    /\ text_lines \in AudioFilesOver(TranscriptPool)
    /\ audio_lines \in AudioFilesOver(AudioPool)
    /\ train = FALSE
    /\ max_audio_length \in {1, 2 * RatioThreshold - 1}
    /\ audio_data = NoData
    /\ audio_outcome = "none"
    /\ processed = 0
    /\ length_statistics = <<>>

\* the effect of one AudioDataset(...) call on the state
Construct(tr, filtered) ==
    LET r == AudioDataset(text_lines, audio_lines, level, lowercase, tr,
                          filtered, max_audio_length, max_sent_length)
    IN  /\ train' = tr
        /\ audio_data' = r.data
        /\ audio_outcome' = r.outcome
        /\ processed' = r.processed
        /\ length_statistics' = length_statistics \o r.written
        /\ pc' = "constructed"
        /\ UNCHANGED <<text_lines, audio_lines, max_audio_length>>
        /\ UNCHANGED <<vocabVars, textVars, iterVars>>

\* load_audio_data: train_data = AudioDataset(..., train=True, filter_pred=...)
AudioTrain ==
    /\ pc = "audio"
    /\ Construct(TRUE, TRUE)

\* load_audio_data: dev_data / test_data = AudioDataset(..., train=False)
AudioEval ==
    /\ pc = "audio"
    /\ Construct(FALSE, FALSE)

NextAudio ==
    \/ AudioTrain
    \/ AudioEval

SpecAudio == InitAudio /\ [][NextAudio]_vars

(***************************************************************************)
(* make_data_iter and the torchtext iterators it returns                   *)
(* (data.Iterator for evaluation, data.BucketIterator for training).       *)
(* An example is [id, src]: its position in dataset.examples and its       *)
(* source token sequence. A batch is the list of its examples.             *)
(***************************************************************************)
\* sort_key=lambda x: len(x.src)
sort_key(x) == Len(x.src)

\* BucketIterator pools batch_size * 100 examples at a time
BucketFactor == 100

make_data_iter_repeat(tr, sh) ==
    IF tr
    THEN [kind |-> "BucketIterator", repeat |-> TRUE, sort |-> FALSE,
          sort_within_batch |-> TRUE, shuffle |-> sh, train |-> TRUE]
    ELSE [kind |-> "Iterator", repeat |-> TRUE, sort |-> FALSE,
          sort_within_batch |-> FALSE, shuffle |-> FALSE, train |-> FALSE]

\* make_data_iter: the iterator and the settings its constructor is given;
\* Iterator takes shuffle from train and sort_within_batch from sort when
\* they are not passed
make_data_iter(tr, sh) ==
    IF tr
    THEN [kind |-> "BucketIterator", repeat |-> FALSE, sort |-> FALSE,
          sort_within_batch |-> TRUE, shuffle |-> sh, train |-> TRUE]
    ELSE [kind |-> "Iterator", repeat |-> FALSE, sort |-> FALSE,
          sort_within_batch |-> FALSE, shuffle |-> FALSE, train |-> FALSE]

RECURSIVE batch_drop_last(_, _)
batch_drop_last(data, size) ==
    IF Len(data) < size THEN <<>>
    ELSE <<SubSeq(data, 1, size)>>
            \o batch_drop_last(SubSeq(data, size + 1, Len(data)), size)

\* torchtext batch(): cuts data into lists of `size` elements, the last one
\* possibly shorter
RECURSIVE batch(_, _)
batch(data, size) ==
    IF data = <<>> THEN <<>>
    ELSE IF Len(data) <= size THEN <<data>>
    ELSE <<SubSeq(data, 1, size)>>
            \o batch(SubSeq(data, size + 1, Len(data)), size)

\* sorted(p, key=key): ascending and stable
RECURSIVE InsertByKey(_, _)
InsertByKey(done, x) ==
    IF done = <<>> THEN <<x>>
    ELSE IF sort_key(x) < sort_key(Head(done)) THEN <<x>> \o done
    ELSE <<Head(done)>> \o InsertByKey(Tail(done), x)

RECURSIVE SortedByKey(_)
SortedByKey(items) ==
    IF items = <<>> THEN <<>>
    ELSE InsertByKey(SortedByKey(SubSeq(items, 1, Len(items) - 1)),
                     items[Len(items)])

\* minibatch.sort(key=self.sort_key, reverse=True): descending and stable
RECURSIVE InsertByKeyReverse(_, _)
InsertByKeyReverse(done, x) ==
    IF done = <<>> THEN <<x>>
    ELSE IF sort_key(Head(done)) < sort_key(x) THEN <<x>> \o done
    ELSE <<Head(done)>> \o InsertByKeyReverse(Tail(done), x)

RECURSIVE SortReverse(_)
SortReverse(items) ==
    IF items = <<>> THEN <<>>
    ELSE InsertByKeyReverse(SortReverse(SubSeq(items, 1, Len(items) - 1)),
                            items[Len(items)])

\* minibatch.reverse()
Reverse(items) == [i \in 1..Len(items) |-> items[Len(items) + 1 - i]]

SortWithinBatch_ascending(it, minibatch) ==
    IF it.sort_within_batch THEN SortedByKey(minibatch) ELSE minibatch

\* Iterator.__iter__: if self.sort_within_batch: reverse() when the data is
\* sorted, else sort(key=self.sort_key, reverse=True)
SortWithinBatch(it, minibatch) ==
    IF it.sort_within_batch
    THEN IF it.sort THEN Reverse(minibatch) ELSE SortReverse(minibatch)
    ELSE minibatch

(***************************************************************************)
(* Bounds of the iterator model                                            *)
(***************************************************************************)
\* number of examples of the dataset
MaxExamples == 5

\* number of examples of a dataset iterated with train=True, shuffle=True
MaxShuffledExamples == 4

\* batch_size ranges over 1..MaxBatchSize
MaxBatchSize == 3

\* number of passes over one iterator
MaxPasses == 2

\* source sequences of one and of two tokens
SrcPool == {<<(<<"a">>)>>, <<(<<"a">>), (<<"a">>)>>}

DatasetsUpTo(n) ==
    UNION {{[i \in 1..k |-> [id |-> i, src |-> f[i]]] : f \in [1..k -> SrcPool]} :
              k \in 0..n}

\* the orders random_shuffler can return for a list of n elements
Orders ==
    [n \in 0..MaxShuffledExamples |->
        {q \in [1..n -> 1..n] : \A i, j \in 1..n : i # j => q[i] # q[j]}]

\* random_shuffler(items): any order of the items
random_shuffler(items) ==
    {[i \in 1..Len(items) |-> items[q[i]]] : q \in Orders[Len(items)]}

\* Iterator.data(): the dataset sorted, shuffled or as it is
data(it, ds) ==
    IF it.sort THEN {SortedByKey(ds)}
    ELSE IF it.shuffle THEN random_shuffler(ds)
    ELSE {ds}

\* torchtext pool(): each chunk of batch_size * 100 examples is sorted by
\* key (when sort_within_batch), cut into batches, and its batches shuffled
\* (when shuffle); the results random_shuffler allows
RECURSIVE PoolChunks(_, _, _)
PoolChunks(chunks, size, it) ==
    IF chunks = <<>> THEN {<<>>}
    ELSE LET p == Head(chunks)
             p_batch == IF it.sort_within_batch
                        THEN batch(SortedByKey(p), size)
                        ELSE batch(p, size)
             these == IF it.shuffle THEN random_shuffler(p_batch)
                      ELSE {p_batch}
         IN  {b \o rest : b \in these,
                          rest \in PoolChunks(Tail(chunks), size, it)}

pool(xs, size, it) == PoolChunks(batch(xs, size * BucketFactor), size, it)

\* create_batches(): Iterator batches data(); BucketIterator batches it when
\* sort is set and pools it otherwise
create_batches(it, ds, size) ==
    IF it.kind = "BucketIterator" /\ ~it.sort
    THEN UNION {pool(xs, size, it) : xs \in data(it, ds)}
    ELSE {batch(xs, size) : xs \in data(it, ds)}

InitIter ==
    /\ pc = "make_data_iter"
    /\ IdleText
    /\ IdleAudio
    /\ dataset = <<>> /\ field = "src" /\ max_size = 0 /\ min_freq = 0
    /\ vocab_file = NoFile /\ vocab = EmptyVocabulary /\ outcome = "none"
    /\ iter_train \in BOOLEAN
    /\ shuffle \in BOOLEAN
    /\ batch_size \in 1..MaxBatchSize
    /\ iter_dataset \in DatasetsUpTo(IF iter_train /\ shuffle
                                    THEN MaxShuffledExamples
                                    ELSE MaxExamples)
    /\ data_iter = NoIter
    /\ batches = <<>>
    /\ yielded = <<>>
    /\ epoch = 0

\* data_iter = make_data_iter(dataset, batch_size, train, shuffle)
MakeDataIter ==
    /\ pc = "make_data_iter"
    /\ data_iter' = make_data_iter(iter_train, shuffle)
    /\ pc' = "ready"
    /\ UNCHANGED <<iter_dataset, batch_size, iter_train, shuffle, batches,
                   yielded, epoch>>
    /\ UNCHANGED <<vocabVars, textVars, audioVars>>

\* iter(data_iter): init_epoch() creates the batches of the pass
StartPass ==
    /\ pc \in {"ready", "exhausted"}
    /\ epoch < MaxPasses
    /\ batches' \in create_batches(data_iter, iter_dataset, batch_size)
    /\ yielded' = <<>>
    /\ epoch' = epoch + 1
    /\ pc' = "iterating"
    /\ UNCHANGED <<iter_dataset, batch_size, iter_train, shuffle, data_iter>>
    /\ UNCHANGED <<vocabVars, textVars, audioVars>>

\* next(): the next minibatch, sorted within the batch, is yielded
NextBatch ==
    /\ pc = "iterating"
    /\ batches # <<>>
    /\ yielded' = Append(yielded, SortWithinBatch(data_iter, Head(batches)))
    /\ batches' = Tail(batches)
    /\ UNCHANGED <<pc, iter_dataset, batch_size, iter_train, shuffle,
                   data_iter, epoch>>
    /\ UNCHANGED <<vocabVars, textVars, audioVars>>

\* the batches are used up: `if not self.repeat: return` ends the pass,
\* otherwise the while loop starts the next epoch
EndPass ==
    /\ pc = "iterating"
    /\ batches = <<>>
    /\ IF data_iter.repeat
       THEN /\ batches' \in create_batches(data_iter, iter_dataset, batch_size)
            /\ pc' = "iterating"
       ELSE /\ batches' = <<>>
            /\ pc' = "exhausted"
    /\ yielded' = <<>>
    /\ UNCHANGED <<iter_dataset, batch_size, iter_train, shuffle, data_iter,
                   epoch>>
    /\ UNCHANGED <<vocabVars, textVars, audioVars>>

NextIter ==
    \/ MakeDataIter
    \/ StartPass
    \/ NextBatch
    \/ EndPass

SpecIter == InitIter /\ [][NextIter]_vars

\* the consumer's for loop keeps asking for the next batch
SpecIterFair ==
    /\ InitIter
    /\ [][NextIter]_vars
    /\ WF_vars(NextBatch)
    /\ WF_vars(EndPass)

(***************************************************************************)
(* Claims about build_vocab (checked under SpecVocab)                      *)
(***************************************************************************)
BuiltFromData == pc = "built" /\ vocab_file.is_none

BuiltFromFile == pc = "built" /\ ~vocab_file.is_none

\* the count of t in the selected field of the dataset
Freq(t) == Count(FieldTokens(dataset, field), t)

\* the distinct tokens of the selected field
Occurring == Range(FieldTokens(dataset, field))

\* the tokens of the vocabulary behind the four reserved ones
VocabTail == {vocab.itos[i] : i \in 5..Len(vocab.itos)}

\* C1: a vocabulary built from data with max_size >= 0 is built without an
\* error and holds at most max_size + 4 tokens.
C1_SizeAtMostMaxSizePlus4 ==
    (BuiltFromData /\ max_size >= 0) =>
        /\ outcome = "returned"
        /\ Len(vocab.itos) <= max_size + 4

\* C1 witness: more eligible tokens than max_size, and the cut keeps exactly
\* max_size of them.
C1_Witness ==
    /\ BuiltFromData
    /\ outcome = "returned"
    /\ max_size = 2
    /\ min_freq = 1
    /\ Cardinality(Occurring) = 3
    /\ Len(vocab.itos) = max_size + 4

\* C2: behind the four reserved tokens the tokens are in descending order of
\* frequency in the selected field, and tokens of equal frequency are in
\* ascending lexicographic order.
C2_FrequencyThenAlphabet ==
    (BuiltFromData /\ outcome = "returned") =>
        \A i, j \in 5..Len(vocab.itos) :
            i < j =>
                \/ Freq(vocab.itos[i]) > Freq(vocab.itos[j])
                \/ /\ Freq(vocab.itos[i]) = Freq(vocab.itos[j])
                   /\ StrLess(vocab.itos[i], vocab.itos[j])

\* C2 witness: "b" is more frequent than "a" and "c", which tie: b, a, c.
C2_Witness ==
    /\ BuiltFromData
    /\ outcome = "returned"
    /\ Len(vocab.itos) = 7
    /\ SubSeq(vocab.itos, 5, 7) = <<(<<"b">>), (<<"a">>), (<<"c">>)>>
    /\ Freq(<<"b">>) = 2
    /\ Freq(<<"a">>) = 1
    /\ Freq(<<"c">>) = 1

\* the tokens of the selected field whose count reaches min_freq
Eligible == {t \in Occurring : Freq(t) >= min_freq}

\* C3: the tokens behind the reserved ones are eligible tokens (count in the
\* selected field >= min_freq), as many of them as max_size allows; with
\* min_freq <= -1 every distinct token of the field is eligible.
C3_EligibleIffMinFreq ==
    (BuiltFromData /\ outcome = "returned") =>
        /\ VocabTail \subseteq Eligible
        /\ Cardinality(VocabTail) = Min(max_size, Cardinality(Eligible))
        /\ (min_freq <= -1 /\ max_size >= Cardinality(Occurring))
              => VocabTail = Occurring

\* C3 witness: one token reaches min_freq exactly, another does not, and
\* max_size would have room for both.
C3_Witness ==
    /\ BuiltFromData
    /\ outcome = "returned"
    /\ min_freq = 2
    /\ max_size = 3
    /\ \E t \in Occurring : Freq(t) = 1
    /\ \E t \in Occurring : Freq(t) = 2 /\ VocabTail = {t}

\* C4: build_vocab never returns a vocabulary in which pad, sequence-start or
\* sequence-end resolves to the unknown index (or sits at it); it ends with
\* an assertion error instead, on both paths.
C4_ReservedNeverUnknown ==
    (pc = "built") =>
        /\ outcome \in {"returned", "AssertionError"}
        /\ outcome = "returned" =>
              \A i \in 2..4 :
                  /\ stoi_get(vocab, specials[i]) # DEFAULT_UNK_ID
                  /\ itos_get(vocab, DEFAULT_UNK_ID) # specials[i]

\* C4 witness: a vocabulary file whose first line is the pad token: the
\* vocabulary is constructed and the call ends with the assertion error.
C4_Witness ==
    /\ BuiltFromFile
    /\ outcome = "AssertionError"
    /\ Len(vocab.itos) > 0
    /\ itos_get(vocab, DEFAULT_UNK_ID) = PAD_TOKEN

AllTokens == Tokens \cup Range(specials)

\* C6: in a vocabulary built from data, a contained token round-trips through
\* its index, and a token that is absent from the selected field, below
\* min_freq or cut by max_size resolves to the unknown index 0.
C6_RoundTripOrUnknown ==
    (BuiltFromData /\ outcome = "returned") =>
        /\ \A t \in Range(vocab.itos) :
              /\ stoi_get(vocab, t) \in 0..(Len(vocab.itos) - 1)
              /\ itos_get(vocab, stoi_get(vocab, t)) = t
        /\ \A t \in AllTokens \ Range(vocab.itos) :
              stoi_get(vocab, t) = DEFAULT_UNK_ID
        /\ \A t \in Tokens \ Eligible : stoi_get(vocab, t) = DEFAULT_UNK_ID
        /\ Cardinality({t \in Tokens : stoi_get(vocab, t) # DEFAULT_UNK_ID})
              <= max_size

\* C6 witness: one token is contained, one is below min_freq, one is absent
\* from the selected field.
C6_Witness ==
    /\ BuiltFromData
    /\ outcome = "returned"
    /\ min_freq = 2
    /\ \E t \in Tokens : Freq(t) = 2 /\ itos_get(vocab, stoi_get(vocab, t)) = t
                         /\ stoi_get(vocab, t) = 4
    /\ \E t \in Tokens : Freq(t) = 1 /\ stoi_get(vocab, t) = DEFAULT_UNK_ID
    /\ \E t \in Tokens : Freq(t) = 0 /\ stoi_get(vocab, t) = DEFAULT_UNK_ID

(***************************************************************************)
(* Claims about the text load_data (checked under SpecText)                *)
(***************************************************************************)
\* the number of tokens of a line, counted on the line itself: its
\* characters for level "char", its maximal runs of non-space characters
\* otherwise
TokenCount(line) ==
    LET t == strip(line)
    IN  IF level = "char" THEN Len(t)
        ELSE Cardinality({i \in 1..Len(t) :
                 ~IsSpace(t[i]) /\ (i = 1 \/ IsSpace(t[i - 1]))})

\* the positions of the aligned pairs of lines that are both non-empty
AlignedNonEmpty ==
    {i \in 1..Min(Len(src_lines), Len(trg_lines)) :
        strip(src_lines[i]) # <<>> /\ strip(trg_lines[i]) # <<>>}

\* those of them with both sides within max_sent_length
WithinLength ==
    {i \in AlignedNonEmpty :
        /\ TokenCount(src_lines[i]) <= max_sent_length
        /\ TokenCount(trg_lines[i]) <= max_sent_length}

\* the k-th smallest position of K
Kth(K, k) == CHOOSE i \in K : Cardinality({j \in K : j < i}) = k - 1

\* the examples are the line pairs at the positions K, in file order
IsPairsAt(examples, K) ==
    /\ Len(examples) = Cardinality(K)
    /\ \A k \in 1..Len(examples) :
          LET i == Kth(K, k)
          IN  /\ examples[k].src = preprocess(level, lowercase, strip(src_lines[i]))
              /\ examples[k].trg = preprocess(level, lowercase, strip(trg_lines[i]))
              /\ Len(examples[k].src) = TokenCount(src_lines[i])
              /\ Len(examples[k].trg) = TokenCount(trg_lines[i])

TrainLoaded == pc \in {"train_loaded", "vocab_built", "dev_loaded", "returned"}

\* the corpus src ["a b", "c"], trg ["x y", "z"]
ExampleCorpus ==
    /\ src_lines = <<(<<"a", " ", "b">>), (<<"c">>)>>
    /\ trg_lines = <<(<<"x", " ", "y">>), (<<"z">>)>>

\* C7: the training dataset holds, in file order, exactly the aligned
\* non-empty line pairs with source and target token count <= max_sent_length
\* (src ["a b","c"], trg ["x y","z"]: 2 examples when max_sent_length covers
\* every line, 1 example for max_sent_length = 1).
C7_TrainKeepsPairsWithinLength ==
    TrainLoaded =>
        /\ train_data.kind = "Translation"
        /\ IsPairsAt(train_data.examples, WithinLength)
        /\ (ExampleCorpus /\ max_sent_length = MaxSentLength)
              => Len(train_data.examples) = 2
        /\ (ExampleCorpus /\ max_sent_length = 1)
              => Len(train_data.examples) = 1

\* C7 witness: the example corpus with max_sent_length = 1: the pair
\* ("a b", "x y") is dropped and ("c", "z") is kept.
C7_Witness ==
    /\ TrainLoaded
    /\ ExampleCorpus
    /\ level = "word"
    /\ max_sent_length = 1
    /\ train_data.examples = <<[src |-> <<(<<"c">>)>>, trg |-> <<(<<"z">>)>>]>>

DevLoaded == pc \in {"dev_loaded", "returned"}

\* C8: the dev dataset, and the test dataset when its target file exists,
\* hold every aligned non-empty line pair, whatever max_sent_length is.
C8_DevTestNotFiltered ==
    /\ DevLoaded =>
          /\ dev_data.kind = "Translation"
          /\ IsPairsAt(dev_data.examples, AlignedNonEmpty)
    /\ (pc = "returned" /\ test_cfg = "paired") =>
          /\ test_data.kind = "Translation"
          /\ IsPairsAt(test_data.examples, AlignedNonEmpty)

\* C8 witness: a pair longer than max_sent_length is missing from the
\* training dataset and present in the dev and the test dataset.
C8_Witness ==
    /\ pc = "returned"
    /\ test_cfg = "paired"
    /\ WithinLength # AlignedNonEmpty
    /\ Len(train_data.examples) < Len(dev_data.examples)
    /\ test_data.examples = dev_data.examples
    /\ \E k \in 1..Len(dev_data.examples) :
          Len(dev_data.examples[k].trg) > max_sent_length

\* the positions of the source lines that are non-empty after strip()
NonEmptySrc == {i \in 1..Len(src_lines) : strip(src_lines[i]) # <<>>}

\* C17: load_data's test dataset is None without a test path; the paired
\* dataset when test_path.<trg> is a file; otherwise a source-only dataset
\* with one example per source line that is non-empty after strip(), in file
\* order, each carrying a source sequence and nothing else.
C17_TestDatasetByTargetFile ==
    pc = "returned" =>
        /\ test_cfg = "none" => test_data = NoData
        /\ test_cfg = "paired" =>
              /\ test_data.kind = "Translation"
              /\ IsPairsAt(test_data.examples, AlignedNonEmpty)
              /\ \A k \in 1..Len(test_data.examples) :
                    DOMAIN test_data.examples[k] = {"src", "trg"}
        /\ test_cfg = "src_only" =>
              /\ test_data.kind = "Mono"
              /\ Len(test_data.examples) = Cardinality(NonEmptySrc)
              /\ \A k \in 1..Len(test_data.examples) :
                    LET i == Kth(NonEmptySrc, k)
                        x == test_data.examples[k]
                    IN  /\ DOMAIN x = {"src"}
                        /\ x.src = preprocess(level, lowercase,
                                              strip(src_lines[i]))
                        /\ Len(x.src) = TokenCount(src_lines[i])
                        /\ x.src # <<>>

\* C17 witness: a source-only test set read from a file whose first line is
\* blank and whose second line is "a b": one example, from the second line.
C17_Witness ==
    /\ pc = "returned"
    /\ test_cfg = "src_only"
    /\ src_lines = <<(<<" ">>), (<<"a", " ", "b">>)>>
    /\ Len(test_data.examples) = 1
    /\ Len(dev_data.examples) = 0

(***************************************************************************)
(* Claims about AudioDataset (checked under SpecAudio)                     *)
(***************************************************************************)
Constructed == pc = "constructed"

\* C9: when the transcript file and the audio-reference file differ in their
\* number of lines, constructing an AudioDataset (train or not) raises the
\* length-mismatch error before any line pair is processed, and no dataset
\* is produced.
C9_LineCountMismatchRaises ==
    (Constructed /\ Len(text_lines) # Len(audio_lines)) =>
        /\ audio_outcome = "IndexError"
        /\ audio_data = NoData
        /\ processed = 0
        /\ length_statistics = <<>>

\* C9 witness: two transcript lines, one audio reference that would have
\* passed every filter.
C9_Witness ==
    /\ Constructed
    /\ train
    /\ Len(text_lines) = 2
    /\ Len(audio_lines) = 1
    /\ TrainKeeps(strip(text_lines[1]), audio_lines[1])
    /\ audio_outcome = "IndexError"

AudioTrainReturned == Constructed /\ train /\ audio_outcome = "returned"

\* the line pairs that pass the filter inside the loop
PassesLoopFilter(i) ==
    /\ strip(text_lines[i]) # <<>>
    /\ audio_lines[i].size > MinAudioBytes
    /\ audio_lines[i].frames \div (Len(strip(text_lines[i])) + 1)
          < RatioThreshold

\* the examples are built from the line pairs at the positions K, in order
IsAudioPairsAt(examples, K) ==
    /\ Len(examples) = Cardinality(K)
    /\ \A k \in 1..Len(examples) :
          LET i == Kth(K, k)
          IN  /\ examples[k].audio = audio_lines[i]
              /\ examples[k].mfcc = audio_lines[i].frames
              /\ examples[k].trg
                    = preprocess(level, lowercase, strip(text_lines[i]))
              /\ Len(examples[k].trg) = TokenCount(text_lines[i])

\* the line pairs C10 says are kept: frame count <= max_audio_length
KeptByFrameCount ==
    {i \in 1..Len(text_lines) :
        /\ PassesLoopFilter(i)
        /\ audio_lines[i].frames <= max_audio_length
        /\ TokenCount(text_lines[i]) <= max_sent_length}

\* C10 as stated: the audio training dataset holds exactly the line pairs
\* with a non-empty transcript, audio of more than 44 bytes,
\* frame_count // (char_count + 1) < 10, frame count <= max_audio_length and
\* transcript token count <= max_sent_length.
C10_KeptIffFrameCountWithinMax ==
    AudioTrainReturned =>
        /\ audio_data.kind = "Audio"
        /\ IsAudioPairsAt(audio_data.examples, KeptByFrameCount)
        /\ \A k \in 1..Len(audio_data.examples) :
              audio_data.examples[k].mfcc <= max_audio_length

\* the line pairs the code keeps: placeholder length <= max_audio_length
KeptByPlaceholderLength ==
    {i \in 1..Len(text_lines) :
        /\ PassesLoopFilter(i)
        /\ Max(audio_lines[i].frames - 1, 0) <= max_audio_length
        /\ TokenCount(text_lines[i]) <= max_sent_length}

\* C10 amended: as C10, with the length of the placeholder source sequence
\* (frame count - 1, and 0 for no frame) <= max_audio_length in place of
\* frame count <= max_audio_length: a recording of max_audio_length + 1
\* frames is kept.
C10_KeptIffPlaceholderWithinMax ==
    AudioTrainReturned =>
        /\ audio_data.kind = "Audio"
        /\ IsAudioPairsAt(audio_data.examples, KeptByPlaceholderLength)
        /\ \A k \in 1..Len(audio_data.examples) :
              LET x == audio_data.examples[k]
              IN  /\ Len(x.src) = Max(x.mfcc - 1, 0)
                  /\ x.mfcc <= max_audio_length + 1
                  /\ x.audio.size > MinAudioBytes
                  /\ Len(x.trg) <= max_sent_length
                  /\ Len(x.trg) > 0

\* C10 witness: a training load that keeps a recording of
\* max_audio_length + 1 frames and drops another line pair.
C10_Witness ==
    /\ AudioTrainReturned
    /\ Len(text_lines) = 2
    /\ Len(audio_data.examples) = 1
    /\ audio_data.examples[1].mfcc = max_audio_length + 1
    /\ \E i \in 1..2 : PassesLoopFilter(i) /\ i \notin KeptByPlaceholderLength

AudioReturned == Constructed /\ audio_outcome = "returned"

AudioEvalReturned == AudioReturned /\ ~train

\* the line pairs with a non-empty transcript, a non-empty audio reference
\* and referenced audio of more than 44 bytes
NonTrivialPairs ==
    {i \in 1..Len(text_lines) :
        /\ strip(text_lines[i]) # <<>>
        /\ ~audio_lines[i].empty
        /\ audio_lines[i].size > MinAudioBytes}

\* C11: a non-training AudioDataset (train=False) holds exactly the line
\* pairs whose transcript and audio reference are non-empty and whose audio
\* is larger than the byte threshold, without any length or ratio filter: no
\* example has an empty transcript or audio of at most 44 bytes.
C11_EvalKeepsOnlyNonTrivialPairs ==
    AudioEvalReturned =>
        /\ IsAudioPairsAt(audio_data.examples, NonTrivialPairs)
        /\ \A k \in 1..Len(audio_data.examples) :
              /\ audio_data.examples[k].trg # <<>>
              /\ audio_data.examples[k].audio.size > MinAudioBytes

\* C12 as stated: in every example of an AudioDataset (train or not, char or
\* word level) the placeholder source sequence has frame count - 1 tokens,
\* for every frame count including 0 and 1.
C12_PlaceholderIsFramesMinusOne ==
    AudioReturned =>
        \A k \in 1..Len(audio_data.examples) :
            Len(audio_data.examples[k].src) = audio_data.examples[k].mfcc - 1

\* C12 amended: the placeholder source sequence has frame count - 1 tokens
\* when the frame count is at least 1, and no token when the frame count
\* is 0 (str * -1 is the empty str).
C12_PlaceholderIsFramesMinusOneOrEmpty ==
    AudioReturned =>
        \A k \in 1..Len(audio_data.examples) :
            LET x == audio_data.examples[k]
            IN  /\ x.mfcc >= 1 => Len(x.src) = x.mfcc - 1
                /\ x.mfcc = 0 => x.src = <<>>
                /\ \A j \in 1..Len(x.src) : x.src[j] = <<"a">>

\* C12 witness: a word-level dataset with an example of 0 frames (empty
\* placeholder) and an example of 2 frames (placeholder of one token).
C12_Witness ==
    /\ AudioReturned
    /\ level = "word"
    /\ Len(audio_data.examples) = 2
    /\ audio_data.examples[1].mfcc = 0
    /\ audio_data.examples[1].src = <<>>
    /\ audio_data.examples[2].mfcc = 2
    /\ audio_data.examples[2].src = <<<<"a">>>>

\* the line pairs the loop counts in its statistics
Counted ==
    {i \in 1..Len(text_lines) :
        train => TrainKeeps(strip(text_lines[i]), audio_lines[i])}

\* frame_count // (char_count + 1) of line pair i
Ratio(i) == audio_lines[i].frames \div (Len(strip(text_lines[i])) + 1)

RECURSIVE SumRatios(_)
SumRatios(K) ==
    IF K = {} THEN 0
    ELSE LET i == CHOOSE j \in K : TRUE IN Ratio(i) + SumRatios(K \ {i})

\* C16: a load that completes appends exactly one line to the statistics
\* file, whose mini, maxi and mean are the minimum, the maximum and the mean
\* (sum / count) of frame_count // (char_count + 1) over the counted pairs.
C16_StatisticsAreMinMaxMean ==
    AudioReturned =>
        /\ Len(length_statistics) = 1
        /\ LET line == length_statistics[1]
           IN  /\ line.count = Cardinality(Counted)
               /\ line.summa = SumRatios(Counted)
               /\ \A i \in Counted : line.mini <= Ratio(i) /\ Ratio(i) <= line.maxi
               /\ \E i \in Counted : line.mini = Ratio(i)
               /\ \E i \in Counted : line.maxi = Ratio(i)

\* C18: with matching line counts and every audio reference naming a file,
\* a training load completes whatever number of line pairs fail the
\* empty/size/ratio filter (all of them, or no line pair at all), and the
\* dataset holds exactly the pairs that passed.
C18_FilteringIsNeverFatal ==
    (/\ Constructed
     /\ train
     /\ Len(text_lines) = Len(audio_lines)
     /\ \A i \in 1..Len(audio_lines) : ~audio_lines[i].empty) =>
        /\ audio_outcome = "returned"
        /\ IsAudioPairsAt(audio_data.examples, KeptByPlaceholderLength)

(***************************************************************************)
(* Claims about make_data_iter (checked under SpecIter / SpecIterFair)     *)
(***************************************************************************)
\* the running pass has yielded all its batches
PassComplete == pc = "iterating" /\ batches = <<>>

RECURSIVE Concat(_)
Concat(bs) == IF bs = <<>> THEN <<>> ELSE Head(bs) \o Concat(Tail(bs))

\* ceil(n / b)
CeilDiv(n, b) == (n + b - 1) \div b

\* C13: in evaluation mode a pass yields ceil(N/B) batches, all of size B
\* but the last, which has the remaining N - B*(ceil(N/B)-1) examples
\* (sizes 2, 2, 1 for N = 5, B = 2); the batches concatenated are the
\* dataset in its original order, and every pass gives the same batches:
\* throughout each pass, the yielded batches are the first cuts of the
\* dataset in order.
C13_EvalBatchesInFileOrder ==
    (pc = "iterating" /\ ~iter_train) =>
        LET N == Len(iter_dataset)
            nb == CeilDiv(N, batch_size)
        IN  /\ Concat(yielded) \o Concat(batches) = iter_dataset
            /\ \A k \in 1..Len(yielded) :
                  /\ k < nb => Len(yielded[k]) = batch_size
                  /\ k = nb => Len(yielded[k]) = N - batch_size * (nb - 1)
            /\ PassComplete =>
                  /\ Len(yielded) = nb
                  /\ (N = 5 /\ batch_size = 2) =>
                        [k \in 1..3 |-> Len(yielded[k])] = <<2, 2, 1>>

\* C13 witness: the second pass over 5 examples with batch size 2 has
\* yielded its three batches.
C13_Witness ==
    /\ PassComplete
    /\ ~iter_train
    /\ epoch = 2
    /\ Len(iter_dataset) = 5
    /\ batch_size = 2
    /\ Len(yielded) = 3
    /\ Len(yielded[3]) = 1

\* C14 as stated: with train=True and shuffle=False, the examples of every
\* yielded batch are in non-decreasing order of source length.
C14_BatchNonDecreasingInSourceLength ==
    (pc = "iterating" /\ iter_train /\ ~shuffle) =>
        \A k \in 1..Len(yielded) :
            \A i, j \in 1..Len(yielded[k]) :
                i < j => Len(yielded[k][i].src) <= Len(yielded[k][j].src)

\* C14 amended: with train=True and shuffle=False, the examples of every
\* yielded batch are in non-increasing order of source length (the batch is
\* sorted with reverse=True).
C14_BatchNonIncreasingInSourceLength ==
    (pc = "iterating" /\ iter_train /\ ~shuffle) =>
        \A k \in 1..Len(yielded) :
            \A i, j \in 1..Len(yielded[k]) :
                i < j => Len(yielded[k][i].src) >= Len(yielded[k][j].src)

\* C14 witness: a batch of three examples, the first longer than the last,
\* from a dataset whose first example is its shortest.
C14_Witness ==
    /\ pc = "iterating"
    /\ iter_train
    /\ ~shuffle
    /\ Len(yielded) >= 1
    /\ Len(yielded[1]) = 3
    /\ Len(yielded[1][1].src) > Len(yielded[1][3].src)
    /\ Len(iter_dataset[1].src) = 1

\* the number of positions of the batches bs that hold example x
Occurrences(x, bs) ==
    Cardinality({<<k, i>> \in (1..Len(bs)) \X (1..Len(iter_dataset)) :
                    i <= Len(bs[k]) /\ bs[k][i] = x})

\* every example of the dataset is in exactly one yielded batch, and the
\* batches hold nothing else
EveryExampleOnce ==
    /\ \A n \in 1..Len(iter_dataset) : Occurrences(iter_dataset[n], yielded) = 1
    /\ Len(Concat(yielded)) = Len(iter_dataset)

NoExampleTwice ==
    \A n \in 1..Len(iter_dataset) : Occurrences(iter_dataset[n], yielded) <= 1

\* C19: in training and in evaluation mode a pass is finite: a pass that
\* has started yields every example of the dataset in exactly one batch and
\* then ends (the iterator is exhausted and yields nothing until a new pass
\* is started); no example is yielded twice on the way.
C19_PassYieldsEveryExampleOnceAndEnds ==
    /\ [](PassComplete => EveryExampleOnce)
    /\ [](pc = "iterating" => NoExampleTwice)
    /\ [](pc = "exhausted" => batches = <<>>)
    /\ ((pc = "iterating") ~> PassComplete)
    /\ (PassComplete ~> (pc = "exhausted"))

\* C19 witness: a shuffled training pass over 4 examples with batch size 3
\* has yielded a full and a partial batch.
C19_Witness ==
    /\ PassComplete
    /\ iter_train
    /\ shuffle
    /\ Len(iter_dataset) = 4
    /\ batch_size = 3
    /\ Len(yielded) = 2
    /\ EveryExampleOnce
    /\ \E k \in 1..2 : Len(yielded[k]) = 1

====
